---- MODULE Spec2Model ----
(***************************************************************************)
(* Model of main.py: the credential lifecycle of get_token, the cover      *)
(* upload and book creation of create_book_with_cover, and the reading     *)
(* list of the default mode.  One behaviour is a sequence of runs of the   *)
(* script against one credential file; every file state a run starts from  *)
(* was left there by an earlier run.                                       *)
(***************************************************************************)
EXTENDS Integers, Sequences, FiniteSets, TLC

\* ------------------------------------------------------------------ bounds
NumTokens == 2      \* distinct non-empty tokens the server can hand out
NumProfiles == 1    \* distinct non-empty profile ids
NumKeys == 2        \* distinct signed-upload keys
MaxBooks == 2       \* books in one listing response
MaxAuthors == 2     \* authors of one book

\* --------------------------------------------------------------- constants
url == "https://literal.club/graphql/"
ITALIC == "\\033[3m"
RESET == "\\033[0m"
OwnerOnlyMode == 384    \* 0o600
DefaultCreateMode == 438    \* 0o666, the mode open(..., "w") asks for
AllModeBits == 511    \* 0o777
GroupOtherBits == 63    \* 0o077
Umasks == {18, 63}    \* 0o022 and 0o077

RECURSIVE BitAnd(_, _)
BitAnd(x, y) ==
    IF x = 0 \/ y = 0 THEN 0
    ELSE (x % 2) * (y % 2) + 2 * BitAnd(x \div 2, y \div 2)

\* Mode of a file that open(TOKEN_FILE, "w") creates.
CreatedMode(um) == BitAnd(DefaultCreateMode, AllModeBits - um)

\* --------------------------------------------------------------- values
Tok(i) == IF i = 0 THEN "" ELSE "tok" \o ToString(i)
Pid(i) == IF i = 0 THEN "" ELSE "id" \o ToString(i)
Tokens == {Tok(i) : i \in 0..NumTokens}
ProfileIds == {Pid(i) : i \in 0..NumProfiles}
Keys == {"key" \o ToString(i) : i \in 1..NumKeys}

\* "" stands for an absent, null or empty value: the code tests truthiness only.
Truthy(s) == s /= ""

NoCred == [token |-> "", profile_id |-> ""]
Creds == [token : Tokens, profile_id : ProfileIds]

\* The credential file: absent, or present with a content and a mode.
\* kind "corrupt" is any content json.load or .get() raises on (empty,
\* truncated, not an object); kind "cred" is a JSON object.
NoFile == [present |-> FALSE, kind |-> "none", cred |-> NoCred, mode |-> 0]
CorruptFile(m) == [present |-> TRUE, kind |-> "corrupt", cred |-> NoCred, mode |-> m]
CredFile(c, m) == [present |-> TRUE, kind |-> "cred", cred |-> c, mode |-> m]

Statuses == {200, 401}

VARIABLES
    TOKEN_FILE,      \* the file ~/.literal_token
    file0,           \* the file as the run found it
    DEBUG,           \* "--debug" in sys.argv
    argv,            \* sys.argv[1]: "create-book" or "" (default mode)
    umask,           \* the process umask
    pc,              \* position of the run
    token_data,      \* get_token: the loaded JSON object
    login_data,      \* get_token: data.login of the login response
    token,           \* main: the token get_token returned
    profile_id,      \* main: the profile id get_token returned
    ret_line,        \* the return statement get_token left by (0: none yet)
    exit_code,       \* -1 while the run is going
    stdout,          \* what print() wrote, in order
    failures,        \* failures that happened in the run
    reads,           \* opens of the credential file for reading
    writes,          \* opens of the credential file for writing
    prompts,         \* login prompts
    sent,            \* requests issued, in order
    received,        \* the outcome of each request of sent, in the same order
    book_data,       \* create-book: the variables of the mutation
    signed_url_data, \* create-book: the signedUrlForCoverUpload payload
    upload_status,   \* create-book: outcome of the cover upload
    result,          \* create-book: what create_book_with_cover returned
    books            \* default mode: the listing payload

vars == <<TOKEN_FILE, file0, DEBUG, argv, umask, pc, token_data, login_data,
          token, profile_id, ret_line, exit_code, stdout, failures, reads,
          writes, prompts, sent, received, book_data, signed_url_data,
          upload_status, result, books>>

fileVars == <<TOKEN_FILE, file0>>
envVars == <<DEBUG, argv, umask>>
bookVars == <<book_data, signed_url_data, upload_status, result, books>>

\* ------------------------------------------------------------- helpers
debug_print_always(out, msg) == Append(out, msg)

\* main.py:16-18
debug_print(out, msg) == IF DEBUG THEN Append(out, msg) ELSE out

print(out, msg) == Append(out, msg)

NoKey == ""
NoResult == "None"
Argvs == {"", "create-book"}
NoBookData == [k \in {} |-> ""]
\* What came back: an exception out of requests (raised), or a status code
\* and whether the JSON body has an "errors" member.
Response(raised, status, errors) ==
    [raised |-> raised, status |-> status, errors |-> errors]

\* One outbound call: requests.post(url, json={query, variables}, headers) or
\* requests.put(signed_url, ...); auth is the bearer token ("" when no
\* Authorization header is sent).
Request(to, op, auth, variables) ==
    [to |-> to, op |-> op, auth |-> auth, variables |-> variables]

\* ------------------------------------------------------------ get_token
\* main.py:145-146  if TOKEN_FILE.exists()
CheckExists ==
    /\ pc = "start"
    /\ IF TOKEN_FILE.present
       THEN /\ stdout' = debug_print(stdout, "Token file exists")
            /\ pc' = "open_read"
       ELSE /\ stdout' = stdout
            /\ pc' = "login_prompt"
    /\ UNCHANGED <<fileVars, envVars, bookVars, token_data, login_data, token,
                   profile_id, ret_line, exit_code, failures, reads, writes,
                   prompts, sent, received>>

\* main.py:147-154, 176-179  open, json.load, .get, truthiness test
OpenRead ==
    /\ pc = "open_read"
    /\ reads' = reads + 1
    /\ \E io_ok \in BOOLEAN :
        IF ~io_ok \/ TOKEN_FILE.kind /= "cred"
        THEN /\ stdout' = debug_print(stdout, "Error reading token file")
             /\ failures' = failures \cup {"read"}
             /\ token_data' = token_data
             /\ pc' = "login_prompt"
        ELSE /\ token_data' = TOKEN_FILE.cred
             /\ failures' = failures
             /\ IF Truthy(TOKEN_FILE.cred.token) /\ Truthy(TOKEN_FILE.cred.profile_id)
                THEN /\ stdout' = debug_print(stdout, "Beginning token verification")
                     /\ pc' = "probe"
                ELSE /\ stdout' = debug_print(
                                     debug_print(stdout, "Beginning token verification"),
                                     "No token or profile_id found")
                     /\ pc' = "login_prompt"
    /\ UNCHANGED <<fileVars, envVars, bookVars, login_data, token, profile_id,
                   ret_line, exit_code, writes, prompts, sent, received>>

ProbeValid_checks_errors(status, errors) == status = 200 /\ ~errors

\* main.py:169  if response.status_code == 200: the body is not looked at
ProbeValid(status, errors) == status = 200

AfterValidProbe_saves == "open_write"

\* main.py:171  a valid stored credential is returned at once
AfterValidProbe == "main"

\* main.py:155-175, 178-179  the validation probe
Probe ==
    /\ pc = "probe"
    /\ sent' = Append(sent, Request(url, "me", token_data.token, NoBookData))
    /\ \E raised \in BOOLEAN, status \in Statuses, errors \in BOOLEAN :
        /\ raised => (status = 200 /\ ~errors)
        /\ received' = Append(received, Response(raised, status, errors))
        /\ IF raised
           THEN /\ stdout' = debug_print(stdout, "Error reading token file")
                /\ failures' = failures \cup {"probe_raise"}
                /\ pc' = "login_prompt"
                /\ UNCHANGED <<token, profile_id, ret_line>>
           ELSE IF ProbeValid(status, errors)
           THEN /\ stdout' = debug_print(stdout, "Token is valid")
                /\ failures' = IF errors THEN failures \cup {"probe_app"} ELSE failures
                /\ token' = token_data.token
                /\ profile_id' = token_data.profile_id
                /\ ret_line' = 171
                /\ pc' = AfterValidProbe
           ELSE /\ stdout' = debug_print(debug_print(debug_print(stdout,
                                 "Token is invalid"), "Response:"), "Attempting to login")
                /\ failures' = failures \cup {IF status /= 200 THEN "probe" ELSE "probe_app"}
                /\ pc' = "login_prompt"
                /\ UNCHANGED <<token, profile_id, ret_line>>
    /\ UNCHANGED <<fileVars, envVars, bookVars, token_data, login_data,
                   exit_code, reads, writes, prompts>>

\* main.py:181-183  the prompt for email and password
LoginPrompt ==
    /\ pc = "login_prompt"
    /\ stdout' = print(stdout, "Please login to Literal")
    /\ prompts' = prompts + 1
    /\ pc' = "login_request"
    /\ UNCHANGED <<fileVars, envVars, bookVars, token_data, login_data, token,
                   profile_id, ret_line, exit_code, failures, reads, writes, sent,
                   received>>

LoginFailed_status_only(status, errors) == status /= 200

\* main.py:203, 209  the two tests that end in exit(1)
LoginFailed(status, errors) == status /= 200 \/ errors

\* main.py:185-214  the login request and the reading of its response
LoginRequest ==
    /\ pc = "login_request"
    /\ sent' = Append(sent, Request(url, "login", "", NoBookData))
    /\ \E raised \in BOOLEAN, status \in Statuses, errors \in BOOLEAN, c \in Creds :
        /\ raised => (status = 200 /\ ~errors)
        /\ received' = Append(received, Response(raised, status, errors))
        /\ (raised \/ status /= 200 \/ errors) => c = NoCred
        /\ IF raised
           THEN \* uncaught exception: traceback on stderr, exit status 1
                /\ stdout' = stdout
                /\ failures' = failures \cup {"login_raise"}
                /\ login_data' = login_data
                /\ exit_code' = 1
                /\ pc' = "crashed"
           ELSE IF LoginFailed(status, errors)
           THEN /\ stdout' = IF status /= 200
                             THEN print(print(stdout, "Login failed with status code"),
                                        "Response:")
                             ELSE print(stdout, "Login failed:")
                /\ failures' = failures \cup
                                 {IF status /= 200 THEN "login_transport" ELSE "login_app"}
                /\ login_data' = login_data
                /\ exit_code' = 1
                /\ pc' = "exited"
           ELSE /\ stdout' = stdout
                /\ failures' = failures
                /\ login_data' = c
                /\ exit_code' = exit_code
                /\ pc' = "open_write"
    /\ UNCHANGED <<fileVars, envVars, bookVars, token_data, token, profile_id,
                   ret_line, reads, writes, prompts>>

LoginReturn_stored(stored, login) == stored

\* main.py:213-214, 223  the pair get_token returns after a login
LoginReturn(stored, login) == login

\* main.py:223  return token, profile_id
ReturnLogin ==
    /\ token' = LoginReturn(token_data, login_data).token
    /\ profile_id' = LoginReturn(token_data, login_data).profile_id
    /\ ret_line' = 223
    /\ pc' = "main"

PersistFailed_fatal ==
    /\ stdout' = print(stdout, "Warning: Could not save token")
    /\ failures' = failures \cup {"write"}
    /\ exit_code' = 1
    /\ pc' = "exited"
    /\ UNCHANGED <<token, profile_id, ret_line>>

\* main.py:220-223  except Exception: debug_print the warning, then return
PersistFailed ==
    /\ stdout' = debug_print(stdout, "Warning: Could not save token")
    /\ failures' = failures \cup {"write"}
    /\ exit_code' = exit_code
    /\ ReturnLogin

\* main.py:217  open(TOKEN_FILE, "w"): create or truncate
OpenWrite ==
    /\ pc = "open_write"
    /\ \E io_ok \in BOOLEAN :
        IF io_ok
        THEN /\ TOKEN_FILE' = CorruptFile(IF TOKEN_FILE.present THEN TOKEN_FILE.mode
                                          ELSE CreatedMode(umask))
             /\ writes' = writes + 1
             /\ pc' = "dump"
             /\ UNCHANGED <<stdout, failures, token, profile_id, ret_line, exit_code>>
        ELSE /\ PersistFailed
             /\ UNCHANGED <<TOKEN_FILE, writes>>
    /\ UNCHANGED <<file0, envVars, bookVars, token_data, login_data,
                   reads, prompts, sent, received>>

\* main.py:218  json.dump({"token": token, "profile_id": profile_id}, f)
Dump ==
    /\ pc = "dump"
    /\ \E io_ok \in BOOLEAN :
        IF io_ok
        THEN /\ TOKEN_FILE' = CredFile(login_data, TOKEN_FILE.mode)
             /\ pc' = "chmod"
             /\ UNCHANGED <<stdout, failures, token, profile_id, ret_line, exit_code>>
        ELSE /\ PersistFailed
             /\ UNCHANGED TOKEN_FILE
    /\ UNCHANGED <<file0, envVars, bookVars, token_data, login_data,
                   reads, writes, prompts, sent, received>>

chmod_skipped(file, mode) == file

\* main.py:219  os.chmod(TOKEN_FILE, 0o600)
chmod(file, mode) == [file EXCEPT !.mode = mode]

\* main.py:219-223  the chmod and the return
Chmod ==
    /\ pc = "chmod"
    /\ \E io_ok \in BOOLEAN :
        IF io_ok
        THEN /\ TOKEN_FILE' = chmod(TOKEN_FILE, OwnerOnlyMode)
             /\ ReturnLogin
             /\ UNCHANGED <<stdout, failures, exit_code>>
        ELSE /\ PersistFailed
             /\ UNCHANGED TOKEN_FILE
    /\ UNCHANGED <<file0, envVars, bookVars, token_data, login_data,
                   reads, writes, prompts, sent, received>>

get_token ==
    \/ CheckExists
    \/ OpenRead
    \/ Probe
    \/ LoginPrompt
    \/ LoginRequest
    \/ OpenWrite
    \/ Dump
    \/ Chmod

\* ------------------------------------------------- create-book command
COVER_PREFIX == "https://literal.club/covers/"

\* The payload of signedUrlForCoverUpload for a key.
SignedUrlData(k) == [signedUrl |-> "https://spaces/" \o k, key |-> k]
NoSignedUrlData == [signedUrl |-> "", key |-> ""]

\* What the user types at the prompts, after .strip(): once with every
\* optional field skipped, once with every field given.
BookInputs ==
    {[title |-> "T", description |-> "D", authors |-> "A, B", language |-> "",
      publishedDate |-> "2020-01-01", publisher |-> "P", subtitle |-> "",
      isbn10 |-> "", isbn13 |-> "", pageCount |-> "", mature |-> "",
      physicalFormat |-> ""],
     [title |-> "T", description |-> "D", authors |-> "A, B", language |-> "fr",
      publishedDate |-> "2020-01-01", publisher |-> "P", subtitle |-> "Sub",
      isbn10 |-> "0123456789", isbn13 |-> "9780123456786", pageCount |-> "7",
      mature |-> "y", physicalFormat |-> "paperback"]}

\* main.py:282-327  get_book_data_interactive: required fields always, an
\* optional field only when its input is not empty.
RequiredFields == {"title", "description", "authors", "language",
                   "publishedDate", "publisher", "mature"}
OptionalFields == {"subtitle", "isbn10", "isbn13", "pageCount", "physicalFormat"}

get_book_data_interactive(inp) ==
    [k \in RequiredFields \cup {f \in OptionalFields : inp[f] /= ""} |->
        IF k = "language" THEN (IF inp.language /= "" THEN inp.language ELSE "en")
        ELSE IF k = "mature" THEN (IF inp.mature = "y" THEN "true" ELSE "false")
        ELSE inp[k]]

SetCover_signed_url(bd, key) ==
    [k \in DOMAIN bd \cup {"cover"} |->
        IF k = "cover" THEN "https://spaces/" \o key ELSE bd[k]]

\* main.py:278  book_data["cover"] = f"https://literal.club/covers/{key}"
SetCover(bd, key) ==
    [k \in DOMAIN bd \cup {"cover"} |->
        IF k = "cover" THEN COVER_PREFIX \o key ELSE bd[k]]

\* main.py:334-336  the command line decides the mode
Dispatch ==
    /\ pc = "main"
    /\ IF argv = "create-book"
       THEN \E inp \in BookInputs :
                /\ book_data' = get_book_data_interactive(inp)
                /\ stdout' = print(stdout, "Please provide the following information about your book:")
                /\ pc' = "signed_url"
       ELSE /\ book_data' = book_data
            /\ stdout' = stdout
            /\ pc' = "listing"
    /\ UNCHANGED <<fileVars, envVars, token_data, login_data, token, profile_id,
                   ret_line, exit_code, failures, reads, writes, prompts, sent,
                   received, signed_url_data, upload_status, result, books>>

\* main.py:346-347  create_book_with_cover returned None
FailedToCreate(out) ==
    /\ result' = NoResult
    /\ stdout' = print(out, "Failed to create book")
    /\ exit_code' = 0
    /\ pc' = "done"

\* main.py:266-269, 20-60  get_signed_cover_url and the test of its result
GetSignedCoverUrl ==
    /\ pc = "signed_url"
    /\ sent' = Append(sent, Request(url, "signedUrlForCoverUpload", token, NoBookData))
    /\ \E raised \in BOOLEAN, status \in Statuses, errors \in BOOLEAN,
          k \in Keys \cup {NoKey} :
        /\ raised => (status = 200 /\ ~errors)
        /\ received' = Append(received, Response(raised, status, errors))
        /\ (status /= 200) => ~errors
        /\ (raised \/ status /= 200 \/ errors) => k = NoKey
        /\ IF raised
           THEN /\ failures' = failures \cup {"signed_raise"}
                /\ exit_code' = 1
                /\ pc' = "crashed"
                /\ UNCHANGED <<stdout, signed_url_data, result>>
           ELSE IF status /= 200
           THEN /\ failures' = failures \cup {"signed_transport"}
                /\ signed_url_data' = signed_url_data
                /\ FailedToCreate(print(print(print(stdout,
                       "Request failed with status code"), "Response:"),
                       "Failed to get signed URL for cover upload"))
           ELSE IF errors
           THEN /\ failures' = failures \cup {"signed_app"}
                /\ signed_url_data' = signed_url_data
                /\ FailedToCreate(print(print(stdout,
                       "Error getting signed URL:"),
                       "Failed to get signed URL for cover upload"))
           ELSE IF k = NoKey
           THEN /\ failures' = failures \cup {"signed_null"}
                /\ signed_url_data' = signed_url_data
                /\ FailedToCreate(print(stdout,
                       "Failed to get signed URL for cover upload"))
           ELSE /\ failures' = failures
                /\ signed_url_data' = SignedUrlData(k)
                /\ pc' = "upload"
                /\ UNCHANGED <<stdout, exit_code, result>>
    /\ UNCHANGED <<fileVars, envVars, token_data, login_data, token, profile_id,
                   ret_line, reads, writes, prompts, book_data, upload_status,
                   books>>

\* main.py:272-278, 225-252  upload_cover_image, the test of its result, and
\* the setting of the cover field
UploadCoverImage ==
    /\ pc = "upload"
    /\ \E opened \in BOOLEAN, raised \in BOOLEAN, status \in Statuses :
        /\ ~opened => (~raised /\ status = 200)
        /\ raised => status = 200
        /\ received' = IF opened
                       THEN Append(received, Response(raised, status, FALSE))
                       ELSE received
        /\ sent' = IF opened
                   THEN Append(sent, Request(signed_url_data.signedUrl, "PUT", "", NoBookData))
                   ELSE sent
        /\ IF ~opened \/ raised
           THEN /\ failures' = failures \cup {IF opened THEN "upload_raise" ELSE "upload_io"}
                /\ upload_status' = -1
                /\ book_data' = book_data
                /\ FailedToCreate(print(print(stdout,
                       "Error uploading cover image"), "Failed to upload cover image"))
           ELSE IF status /= 200
           THEN /\ failures' = failures \cup {"upload_transport"}
                /\ upload_status' = status
                /\ book_data' = book_data
                /\ FailedToCreate(print(print(print(stdout,
                       "Upload failed with status code"), "Response:"),
                       "Failed to upload cover image"))
           ELSE /\ failures' = failures
                /\ upload_status' = status
                /\ stdout' = print(stdout, "Cover image uploaded successfully")
                /\ book_data' = SetCover(book_data, signed_url_data.key)
                /\ pc' = "create_book"
                /\ UNCHANGED <<exit_code, result>>
    /\ UNCHANGED <<fileVars, envVars, token_data, login_data, token, profile_id,
                   ret_line, reads, writes, prompts, signed_url_data, books>>

\* main.py:280, 62-141, 339-347  create_book and the report of its result
CreateBook ==
    /\ pc = "create_book"
    /\ sent' = Append(sent, Request(url, "createBook", token, book_data))
    /\ \E raised \in BOOLEAN, status \in Statuses, errors \in BOOLEAN,
          created \in BOOLEAN, subtitled \in BOOLEAN :
        /\ raised => (status = 200 /\ ~errors)
        /\ received' = Append(received, Response(raised, status, errors))
        /\ (status /= 200) => ~errors
        /\ (raised \/ status /= 200 \/ errors) => ~created
        /\ ~created => ~subtitled
        /\ IF raised
           THEN /\ failures' = failures \cup {"create_raise"}
                /\ exit_code' = 1
                /\ pc' = "crashed"
                /\ UNCHANGED <<stdout, result>>
           ELSE IF status /= 200
           THEN /\ failures' = failures \cup {"create_transport"}
                /\ FailedToCreate(print(print(stdout,
                       "Request failed with status code"), "Response:"))
           ELSE IF errors
           THEN /\ failures' = failures \cup {"create_app"}
                /\ FailedToCreate(print(stdout, "Error creating book:"))
           ELSE IF ~created
           THEN /\ failures' = failures
                /\ FailedToCreate(stdout)
           ELSE /\ failures' = failures
                /\ result' = "createBook"
                /\ stdout' =
                     LET o1 == print(print(stdout, "Book created successfully!"), "Title:")
                         o2 == IF subtitled THEN print(o1, "Subtitle:") ELSE o1
                     IN  print(o2, "Authors:")
                /\ exit_code' = 0
                /\ pc' = "done"
    /\ UNCHANGED <<fileVars, envVars, token_data, login_data, token, profile_id,
                   ret_line, reads, writes, prompts, book_data, signed_url_data,
                   upload_status, books>>

create_book_with_cover == GetSignedCoverUrl \/ UploadCoverImage \/ CreateBook

\* ------------------------------------------------------- default mode
RECURSIVE SeqsUpTo(_, _)
SeqsUpTo(S, n) ==
    IF n = 0 THEN {<<>>}
    ELSE LET shorter == SeqsUpTo(S, n - 1)
         IN  shorter \cup {Append(q, x) : q \in shorter, x \in S}

AuthorNames == {"A", "B"}
Authors == [name : AuthorNames]
Books == [title : {"T"}, subtitle : {"", "Sub"}, authors : SeqsUpTo(Authors, MaxAuthors)]
BookLists == SeqsUpTo(Books, MaxBooks)
\* Listings of at most one book, for the runs that follow one another.
ShortBookLists == SeqsUpTo(Books, 1)

\* str.join over the authors' names
RECURSIVE Join(_, _)
Join(names, sep) ==
    IF names = <<>> THEN ""
    ELSE IF Len(names) = 1 THEN names[1]
    ELSE names[1] \o sep \o Join(Tail(names), sep)

FormatBook_no_fallback(book) ==
    LET authors == Join([i \in 1..Len(book.authors) |-> book.authors[i].name], ", ")
        subtitle == IF Truthy(book.subtitle) THEN ": " \o book.subtitle ELSE ""
    IN  authors \o " - " \o ITALIC \o book.title \o subtitle \o RESET

\* main.py:396-399  the line printed for one book
FormatBook(book) ==
    LET authors == IF book.authors /= <<>>
                   THEN Join([i \in 1..Len(book.authors) |-> book.authors[i].name], ", ")
                   ELSE "Unknown Author"
        title == book.title
        subtitle == IF Truthy(book.subtitle) THEN ": " \o book.subtitle ELSE ""
    IN  authors \o " - " \o ITALIC \o title \o subtitle \o RESET

\* main.py:394-401  one line per book, or the notice for an empty list
RECURSIVE PrintBooks(_, _)
PrintBooks(out, bs) ==
    IF bs = <<>> THEN out
    ELSE PrintBooks(print(out, FormatBook(Head(bs))), Tail(bs))

ListingVariables ==
    [k \in {"limit", "offset", "readingStatus", "profileId"} |->
        IF k = "limit" THEN "10" ELSE IF k = "offset" THEN "0"
        ELSE IF k = "readingStatus" THEN "IS_READING" ELSE profile_id]

\* main.py:350-404  the reading-list query and the printing of its result, for
\* a server that answers with one of the lists of Lists
ListingOf(Lists) ==
    /\ pc = "listing"
    /\ sent' = Append(sent, Request(url, "booksByReadingStateAndProfile", token,
                                    ListingVariables))
    /\ \E raised \in BOOLEAN, status \in Statuses, errors \in BOOLEAN, bs \in Lists :
        /\ raised => (status = 200 /\ ~errors)
        /\ received' = Append(received, Response(raised, status, errors))
        /\ (status /= 200) => ~errors
        /\ (raised \/ status /= 200 \/ errors) => bs = <<>>
        /\ IF raised
           THEN /\ failures' = failures \cup {"list_raise"}
                /\ exit_code' = 1
                /\ pc' = "crashed"
                /\ UNCHANGED <<stdout, books>>
           ELSE /\ exit_code' = 0
                /\ pc' = "done"
                /\ IF status /= 200
                   THEN /\ failures' = failures \cup {"list_transport"}
                        /\ stdout' = print(print(stdout,
                               "Request failed with status code"), "Response:")
                        /\ books' = books
                   ELSE IF errors
                   THEN /\ failures' = failures \cup {"list_app"}
                        /\ stdout' = print(stdout, "Error fetching reading states:")
                        /\ books' = books
                   ELSE /\ failures' = failures
                        /\ books' = bs
                        /\ stdout' = IF bs /= <<>> THEN PrintBooks(stdout, bs)
                                     ELSE print(stdout, "Not currently reading any books")
    /\ UNCHANGED <<fileVars, envVars, token_data, login_data, token, profile_id,
                   ret_line, reads, writes, prompts, book_data, signed_url_data,
                   upload_status, result>>

Listing == ListingOf(ShortBookLists)

\* ------------------------------------------------------------ runs
\* main.py:329-331  the state a run starts in: nothing loaded, nothing printed.
Init ==
    \E dbg \in BOOLEAN, arg \in Argvs, um \in Umasks :
        /\ TOKEN_FILE = NoFile
        /\ file0 = NoFile
        /\ DEBUG = dbg
        /\ argv = arg
        /\ umask = um
        /\ pc = "start"
        /\ token_data = NoCred
        /\ login_data = NoCred
        /\ token = ""
        /\ profile_id = ""
        /\ ret_line = 0
        /\ exit_code = -1
        /\ stdout = <<>>
        /\ failures = {}
        /\ reads = 0
        /\ writes = 0
        /\ prompts = 0
        /\ sent = <<>>
        /\ received = <<>>
        /\ book_data = NoBookData
        /\ signed_url_data = NoSignedUrlData
        /\ upload_status = 0
        /\ result = NoResult
        /\ books = <<>>

\* The script is started again on the file the last run left.
Restart ==
    /\ pc \in {"done", "exited", "crashed"}
    /\ \E dbg \in BOOLEAN, arg \in Argvs, um \in Umasks :
        /\ TOKEN_FILE' = TOKEN_FILE
        /\ file0' = TOKEN_FILE
        /\ DEBUG' = dbg
        /\ argv' = arg
        /\ umask' = um
        /\ pc' = "start"
        /\ token_data' = NoCred
        /\ login_data' = NoCred
        /\ token' = ""
        /\ profile_id' = ""
        /\ ret_line' = 0
        /\ exit_code' = -1
        /\ stdout' = <<>>
        /\ failures' = {}
        /\ reads' = 0
        /\ writes' = 0
        /\ prompts' = 0
        /\ sent' = <<>>
        /\ received' = <<>>
        /\ book_data' = NoBookData
        /\ signed_url_data' = NoSignedUrlData
        /\ upload_status' = 0
        /\ result' = NoResult
        /\ books' = <<>>

Next == get_token \/ Dispatch \/ create_book_with_cover \/ Listing \/ Restart

Spec == Init /\ [][Next]_vars

\* The first run on a machine, in default mode: no credential file yet, and a
\* server that answers the listing with any list of BookLists.
InitList == Init /\ argv = "" /\ ~DEBUG /\ umask = 18

FullListing == ListingOf(BookLists)

NextList ==
    \/ CheckExists
    \/ LoginPrompt
    \/ LoginRequest
    \/ OpenWrite
    \/ Dump
    \/ Chmod
    \/ Dispatch
    \/ FullListing

SpecList == InitList /\ [][NextList]_vars

\* ------------------------------------------------------------ properties
Asked(op) == \E i \in 1..Len(sent) : sent[i].op = op
IndexOf(op) == CHOOSE i \in 1..Len(sent) : sent[i].op = op
Answer(op) == received[IndexOf(op)]
Got200(op) == Asked(op) /\ ~Answer(op).raised /\ Answer(op).status = 200
GotNon200(op) == Asked(op) /\ ~Answer(op).raised /\ Answer(op).status /= 200
GotErrors(op) == Got200(op) /\ Answer(op).errors
Printed(msg) == \E i \in 1..Len(stdout) : stdout[i] = msg
Returned == ret_line /= 0
RunOver == pc \in {"done", "exited", "crashed"}

\* The file the run found holds a non-empty token and a non-empty profile_id.
StoredPairComplete ==
    /\ file0.present
    /\ file0.kind = "cred"
    /\ Truthy(file0.cred.token)
    /\ Truthy(file0.cred.profile_id)

\* The file the run found is missing, unreadable, not JSON, or lacks a field.
MissingOrCorrupt ==
    \/ ~file0.present
    \/ "read" \in failures
    \/ (reads = 1 /\ file0.kind = "cred" /\ ~StoredPairComplete)

\* C1: a stored pair with both fields non-empty whose probe came back with
\* status 200, errors list or not, is returned as it is, with no login prompt
\* and no login request.
C1_StoredPairReused ==
    (StoredPairComplete /\ Got200("me")) =>
        /\ ret_line = 171
        /\ token = file0.cred.token
        /\ profile_id = file0.cred.profile_id
        /\ prompts = 0
        /\ ~Asked("login")

C1_Witness ==
    /\ StoredPairComplete
    /\ GotErrors("me")
    /\ ret_line = 171
    /\ pc = "done"

\* C2 as stated: after a missing or corrupt file, one prompt, and a login that
\* succeeded always leaves a credential file of mode 0600.
C2_Original ==
    (MissingOrCorrupt /\ (Returned \/ RunOver)) =>
        /\ prompts = 1
        /\ ret_line = 223 =>
              (TOKEN_FILE.present /\ TOKEN_FILE.mode = OwnerOnlyMode)

\* C2 amended: after a missing or corrupt file, one prompt, and a login that
\* succeeded followed by an open, a dump and a chmod that all went through
\* leaves a file of mode 0600 holding the pair of the login response.
C2_FileSavedWhenPersistWorks ==
    (MissingOrCorrupt /\ (Returned \/ RunOver)) =>
        /\ prompts = 1
        /\ (ret_line = 223 /\ "write" \notin failures) =>
              TOKEN_FILE = CredFile(login_data, OwnerOnlyMode)

C2_Witness ==
    /\ file0.present
    /\ file0.kind = "corrupt"
    /\ file0.mode /= OwnerOnlyMode
    /\ ret_line = 223
    /\ "write" \notin failures
    /\ TOKEN_FILE.mode = OwnerOnlyMode
    /\ pc = "done"

\* C3: after a probe answered with a status other than 200, get_token does
\* not return and the run does not end without the login prompt and the login
\* request, and what get_token returns is the pair of the login response.
C3_ReauthenticatesAfterFailedProbe ==
    (GotNon200("me") /\ (Returned \/ RunOver)) =>
        /\ prompts = 1
        /\ Asked("login")
        /\ Returned =>
              /\ ret_line = 223
              /\ Got200("login")
              /\ token = login_data.token
              /\ profile_id = login_data.profile_id

C3_Witness ==
    /\ GotNon200("me")
    /\ ret_line = 223
    /\ Truthy(token)
    /\ token /= file0.cred.token
    /\ pc = "done"

\* C4: a login answered with a status other than 200, or with an errors list,
\* ends the process with exit status 1 and the credential file is as the run
\* found it.
LoginRejected == GotNon200("login") \/ GotErrors("login")

C4_FailedLoginExitsWithoutWrite ==
    LoginRejected =>
        /\ pc = "exited"
        /\ exit_code = 1
        /\ writes = 0
        /\ TOKEN_FILE = file0

C4_Witness ==
    /\ GotErrors("login")
    /\ file0.present
    /\ pc = "exited"

\* C5: a createBook request comes after a signed-URL fetch that succeeded and
\* an upload answered with 200, and its cover is the covers URL of the signed
\* key; after a failed fetch or a failed upload the run ends with no
\* createBook request and no result.
SignedUrlFetched == Got200("signedUrlForCoverUpload") /\ ~GotErrors("signedUrlForCoverUpload")
                    /\ signed_url_data /= NoSignedUrlData
CoverStepFailed ==
    \/ (Asked("signedUrlForCoverUpload") /\ ~SignedUrlFetched)
    \/ upload_status \notin {0, 200}

C5_CreateBookOnlyWithUploadedCover ==
    /\ \A i \in 1..Len(sent) :
          sent[i].op = "createBook" =>
              /\ SignedUrlFetched
              /\ IndexOf("signedUrlForCoverUpload") < i
              /\ Got200("PUT")
              /\ IndexOf("PUT") < i
              /\ "cover" \in DOMAIN sent[i].variables
              /\ sent[i].variables["cover"] = COVER_PREFIX \o signed_url_data.key
    /\ CoverStepFailed =>
          (~Asked("createBook") /\ result = NoResult /\ RunOver)

C5_Witness ==
    /\ Asked("createBook")
    /\ result /= NoResult
    /\ sent[IndexOf("createBook")].variables["cover"] = "https://literal.club/covers/key2"
    /\ pc = "done"

\* C6: whenever the credential file is on disk, nobody but its owner can
\* read it.
C6_FileOwnerOnly ==
    TOKEN_FILE.present => BitAnd(TOKEN_FILE.mode, GroupOtherBits) = 0

\* C7: when the open, the dump or the chmod of the credential file fails,
\* the process is not ended by it, get_token returns the pair of the login
\* response, and the requests that follow carry that token.
Raises == {"login_raise", "signed_raise", "create_raise", "list_raise"}

C7_PersistFailureNotFatal ==
    "write" \in failures =>
        /\ ret_line = 223
        /\ token = login_data.token
        /\ profile_id = login_data.profile_id
        /\ pc /= "exited"
        /\ (exit_code = 1 => failures \cap Raises /= {})
        /\ \A i \in 1..Len(sent) :
              (i > IndexOf("login") /\ sent[i].op /= "PUT") =>
                  sent[i].auth = login_data.token

C7_Witness ==
    /\ "write" \in failures
    /\ Truthy(token)
    /\ Asked("booksByReadingStateAndProfile")
    /\ sent[IndexOf("booksByReadingStateAndProfile")].auth = token
    /\ exit_code = 0
    /\ pc = "done"

\* The message that reports a failure.
ReportOf(f) ==
    CASE f = "read" -> "Error reading token file"
      [] f = "probe" -> "Token is invalid"
      [] f = "probe_raise" -> "Error reading token file"
      [] f = "write" -> "Warning: Could not save token"
      [] f = "login_transport" -> "Login failed with status code"
      [] f = "login_app" -> "Login failed:"
      [] f = "signed_transport" -> "Request failed with status code"
      [] f = "signed_app" -> "Error getting signed URL:"
      [] f = "upload_io" -> "Error uploading cover image"
      [] f = "upload_raise" -> "Error uploading cover image"
      [] f = "upload_transport" -> "Upload failed with status code"
      [] f = "create_transport" -> "Request failed with status code"
      [] f = "create_app" -> "Error creating book:"
      [] f = "list_transport" -> "Request failed with status code"
      [] f = "list_app" -> "Error fetching reading states:"

AlwaysReported ==
    {"login_transport", "login_app", "signed_transport", "signed_app",
     "upload_io", "upload_raise", "upload_transport", "create_transport",
     "create_app", "list_transport", "list_app"}
ReportedInDebug == {"read", "probe", "probe_raise", "write"}

\* C8 as stated: every transport, application and local I/O failure of the
\* run has its message on standard output, --debug or not.
C8_Original ==
    \A f \in failures \cap (AlwaysReported \cup ReportedInDebug) : Printed(ReportOf(f))

\* C8 amended: the failures of the login, signed-URL, upload, createBook and
\* listing steps have their message on standard output, --debug or not; a
\* failed read of the credential file, a failed probe and a failed write of
\* the credential file have theirs exactly when --debug is set; an errors
\* list in a 200 probe response is never reported.
C8_FailuresReported ==
    /\ \A f \in failures \cap AlwaysReported : Printed(ReportOf(f))
    /\ \A f \in failures \cap ReportedInDebug : Printed(ReportOf(f)) <=> DEBUG
    /\ "probe_app" \in failures => ~Printed("Token is invalid")

C8_Witness ==
    /\ ~DEBUG
    /\ {"probe", "write", "list_transport"} \subseteq failures
    /\ pc = "done"

\* C9: the credential file is opened for reading at most once in a run, and
\* only before the login prompt; it is opened for writing at most once, and
\* only after a login of this run succeeded; a run that returned the stored
\* pair has not written it.
C9_ReadOnceWriteOnceAfterLogin ==
    /\ [](/\ reads <= 1
          /\ writes <= 1
          /\ (writes > 0 => (Got200("login") /\ ~GotErrors("login")))
          /\ (ret_line = 171 => writes = 0))
    /\ [][/\ (reads' > reads => (prompts = 0 /\ ~Asked("login") /\ Len(sent) = 0))
          /\ (TOKEN_FILE' /= TOKEN_FILE =>
                 (Got200("login") /\ ~GotErrors("login") /\ ret_line = 0))]_vars

C9_Witness ==
    /\ reads = 1
    /\ writes = 1
    /\ GotNon200("me")
    /\ TOKEN_FILE /= file0
    /\ pc = "done"

\* C10: each book of the listing is printed as "<authors> - <italic>title:
\* subtitle<reset>", without ": subtitle" when the subtitle is empty, where
\* <authors> is the names joined by ", " in the order returned, or "Unknown
\* Author" for an empty author list.
RECURSIVE NamesWithCommas(_)
NamesWithCommas(authors) ==
    IF Len(authors) = 1 THEN authors[1].name
    ELSE NamesWithCommas(SubSeq(authors, 1, Len(authors) - 1))
             \o ", " \o authors[Len(authors)].name

ExpectedLine(book) ==
    (IF Len(book.authors) = 0 THEN "Unknown Author" ELSE NamesWithCommas(book.authors))
    \o " - " \o "\\033[3m" \o book.title
    \o (IF book.subtitle = "" THEN "" ELSE ": " \o book.subtitle)
    \o "\\033[0m"

C10_ReadingListLines ==
    (pc = "done" /\ books /= <<>>) =>
        /\ Len(stdout) >= Len(books)
        /\ \A i \in 1..Len(books) :
              stdout[Len(stdout) - Len(books) + i] = ExpectedLine(books[i])

C10_Witness ==
    /\ pc = "done"
    /\ Len(books) = 2
    /\ books[1].authors = <<>>
    /\ books[1].subtitle = ""
    /\ Len(books[2].authors) = 2
    /\ books[2].authors[1] /= books[2].authors[2]
    /\ books[2].subtitle /= ""
    /\ stdout[Len(stdout)] = "B, A - \\033[3mT: Sub\\033[0m"
====
